---- MODULE Spec2Model ----
(***************************************************************************)
(* Device-aware token issuance and validation of AtrijumApi                *)
(* (src/src/auth/auth.service.ts, src/src/auth/strategies/local.strategy.ts)*)
(*                                                                         *)
(* Every HTTP request is a process.  A request is split at the awaits at   *)
(* which it reads or writes the database, so that requests interleave      *)
(* exactly where the Node event loop lets them: between the strategy's     *)
(* load of the user (with its jwtTokens relation) and the handler's write. *)
(*                                                                         *)
(* The User and Jwt entities and UserService are not part of the sources   *)
(* at hand; the Token Store (JwtSave, JwtDelete) and the user table        *)
(* (UserCreate, UserDelete, UserUpdate) follow the written specification.  *)
(* Store failures are modelled where the code or the specification handle  *)
(* them: Jwt.save (try/catch in issueJwtToken), the activation mail        *)
(* (try/catch in signup) and the compensating delete of signup.            *)
(***************************************************************************)
EXTENDS Integers, FiniteSets, Sequences, TLC

\* ---------------------------------------------------------------- bounds
MaxUsers == 2        \* user ids ever generated
MaxClock == 1        \* the clock (in seconds, the resolution of iat) runs 0..MaxClock
MaxRequests == 3     \* requests ever started

ExpiresIn == 1        \* JWT_EXPIRES_IN, in seconds of the clock

Procs == {"r1", "r2"}
Emails == {"a@x.com", "b@x.com"}
Passwords == {"pw1", "pw2"}        \* the passwords submitted to login
SignupPasswords == {"pw1"}          \* the passwords users sign up with

deviceA == [os |-> "Linux", platform |-> "desktop", browser |-> "Chrome"]
deviceB == [os |-> "Linux", platform |-> "desktop", browser |-> "Firefox"]
Devices == {deviceA, deviceB}

UserIds == 1..MaxUsers
Secrets == 1..(MaxUsers + 1)

VARIABLES
  users,     \* the User table: records [id, email, password, activationSecret]
  jwts,      \* the Jwt table (Token Store): records [user, os, platform, browser, jwtToken]
  nextId,    \* the next generated user id
  clock,     \* the time in seconds
  issued,    \* the token strings returned to clients so far
  started,   \* the number of requests started
  pc,        \* each request's position
  loc,       \* each request's local variables
  last       \* the last response sent

vars == <<users, jwts, nextId, clock, issued, started, pc, loc, last>>

\* ------------------------------------------------------ values
NoUser == [id |-> 0, email |-> "", jwtTokens |-> {}]
NoToken == [id |-> 0, email |-> "", iat |-> 0]
NoLoc == [op |-> "none", user |-> NoUser, ua |-> deviceA, jwtToken |-> NoToken]
NoOut == [op |-> "none", status |-> "none", value |-> "none",
          token |-> NoToken, affected |-> 0]

\* bcrypt.hash / bcrypt.compare: the hash is salted and one-way; compare
\* answers whether the hash was made from the password.
Hash(password) == <<"bcrypt", password>>
\* Mutant: every password matches.
BcryptCompareAny(password, hash) == TRUE

BcryptCompare(password, hash) == hash = Hash(password)

\* jwtService.signAsync(payload): HS256 over {email, id, iat, exp}, iat in
\* whole seconds; exp = iat + ExpiresIn.  The string is a function of the
\* payload and of the second it is signed in.
\* Mutant: the token does not depend on the time it is signed at.
SignAsyncNoIat(payload, now) == [id |-> payload.id, email |-> payload.email, iat |-> 0]

SignAsync(payload, now) == [id |-> payload.id, email |-> payload.email, iat |-> now]

\* jwtService.decode(jwtToken).exp
JwtExpiresAt(jwtToken) == jwtToken.iat + ExpiresIn

\* ------------------------------------------------------ the user table
\* User.findOne({ where: { email }, relations: [JWT_TOKENS] }) and
\* userService.findOne({ where: { id }, relations: [JWT_TOKENS] }): the user
\* with the rows of the Jwt table it owns, as they are at the time of the load.
LoadUser(u) ==
  [id |-> u.id, email |-> u.email, jwtTokens |-> {t \in jwts : t.user = u.id}]

FindUserByEmail(email) == {LoadUser(u) : u \in {x \in users : x.email = email}}

FindUserById(id) == {LoadUser(u) : u \in {x \in users : x.id = id}}

\* userService.create(user): a new record with a generated id, the hashed
\* password and a fresh activation secret (one per user).
UserCreate(email, password) ==
  [id |-> nextId, email |-> email, password |-> Hash(password),
   activationSecret |-> nextId]

\* Mutant: the delete removes nothing.
UserDeleteNothing(table, id) == table

\* userService.delete(id)
UserDelete(table, id) == {u \in table : u.id # id}

\* userService.update({ activationSecret: secret }, { activationSecret: null }):
\* 0 stands for null.
UserUpdateMatches(table, secret) == {u \in table : u.activationSecret = secret}

\* Mutant: the criteria are dropped, every user is updated.
UserUpdateAll(table, secret) == {[u EXCEPT !.activationSecret = 0] : u \in table}

UserUpdate(table, secret) ==
  {IF u.activationSecret = secret THEN [u EXCEPT !.activationSecret = 0] ELSE u
     : u \in table}

\* ------------------------------------------------------ the Token Store
JwtKey(t) == <<t.user, t.os, t.platform, t.browser>>

\* Mutant: save always inserts.
JwtSaveInsert(table, token) == table \cup {token}

\* Jwt.save(token): upsert, insert if absent, else overwrite in place.
JwtSave(table, token) ==
  {t \in table : JwtKey(t) # JwtKey(token)} \cup {token}

\* Jwt.delete({ os, platform, browser, user }): the rows the criteria match.
\* Mutant: the delete matches on the user alone.
JwtDeleteMatchesUser(table, user, ua) == {t \in table : t.user = user.id}

JwtDeleteMatches(table, user, ua) ==
  {t \in table : t.user = user.id /\ t.os = ua.os /\ t.platform = ua.platform
                 /\ t.browser = ua.browser}

\* find(user, fingerprint) on the Token Store
Find(table, userId, ua) ==
  {t \in table : JwtKey(t) = <<userId, ua.os, ua.platform, ua.browser>>}

\* ------------------------------------------------------ issueJwtToken
\* Mutant: the browser is not compared.
SameDeviceNoBrowser(token, ua) ==
  token.os = ua.os /\ token.platform = ua.platform

\* the predicate of user.jwtTokens?.find(...)
SameDevice(token, ua) ==
  token.os = ua.os /\ token.platform = ua.platform /\ token.browser = ua.browser

FoundTokens(user, ua) == {t \in user.jwtTokens : SameDevice(t, ua)}

\* Mutant: preventCreation is ignored.
UnauthorizedDeviceNever(user, ua, preventCreation) == FALSE

\* if (!token && preventCreation) throw new UnauthorizedException(...)
UnauthorizedDevice(user, ua, preventCreation) ==
  FoundTokens(user, ua) = {} /\ preventCreation

\* Mutant: the found entity is saved without token.jwtToken = jwtToken.
TokenToSaveStale(user, ua, jwtToken) ==
  IF FoundTokens(user, ua) # {}
  THEN CHOOSE t \in FoundTokens(user, ua) : TRUE
  ELSE [user |-> user.id, os |-> ua.os, platform |-> ua.platform,
        browser |-> ua.browser, jwtToken |-> jwtToken]

\* the entity handed to Jwt.save: the found one with its jwtToken replaced,
\* or a new Jwt() for the user and the device.
TokenToSave(user, ua, jwtToken) ==
  IF FoundTokens(user, ua) # {}
  THEN [(CHOOSE t \in FoundTokens(user, ua) : TRUE) EXCEPT !.jwtToken = jwtToken]
  ELSE [user |-> user.id, os |-> ua.os, platform |-> ua.platform,
        browser |-> ua.browser, jwtToken |-> jwtToken]

\* ------------------------------------------------------ responses
Respond(p, o) ==
  /\ pc' = [pc EXCEPT ![p] = "idle"]
  /\ loc' = [loc EXCEPT ![p] = NoLoc]
  /\ last' = o

\* A response: the exception thrown to the HTTP layer, or the value returned
\* (with the token of a UserResDto and the affected count of a store result).
\* A rejected token authentication carries the token that was presented.
Thrown(op, exception, token) ==
  [op |-> op, status |-> "thrown", value |-> exception, token |-> token,
   affected |-> 0]

Returned(op, value, token, affected) ==
  [op |-> op, status |-> "returned", value |-> value, token |-> token,
   affected |-> affected]

\* A request starts in a free slot.  The slots are interchangeable, so the
\* second one is taken only while the first is busy.
Begin(p) ==
  /\ pc[p] = "idle"
  /\ p = "r1" \/ pc["r1"] # "idle"
  /\ started < MaxRequests
  /\ started' = started + 1

\* Mutant: the error of Jwt.save is swallowed and the token returned.
IssueAndRespondSwallow(p, op, preventCreation) ==
  LET user == loc[p].user
      ua == loc[p].ua
      jwtToken == SignAsync([email |-> user.email, id |-> user.id], clock)
  IN IF UnauthorizedDevice(user, ua, preventCreation)
     THEN /\ Respond(p, Thrown(op, "UnauthorizedException", NoToken))
          /\ UNCHANGED <<jwts, issued>>
     ELSE \E saved \in BOOLEAN :
            /\ jwts' = IF saved THEN JwtSave(jwts, TokenToSave(user, ua, jwtToken))
                                ELSE jwts
            /\ issued' = issued \cup {jwtToken}
            /\ Respond(p, Returned(op, "UserResDto", jwtToken, 0))

\* issueJwtToken(user, ua, preventCreation) as the last step of login and of
\* refresh: sign, find, save, and the response built from the token.
IssueAndRespond(p, op, preventCreation) ==
  LET user == loc[p].user
      ua == loc[p].ua
      jwtToken == SignAsync([email |-> user.email, id |-> user.id], clock)
  IN IF UnauthorizedDevice(user, ua, preventCreation)
     THEN /\ Respond(p, Thrown(op, "UnauthorizedException", NoToken))
          /\ UNCHANGED <<jwts, issued>>
     ELSE \E saved \in BOOLEAN :
            IF saved
            THEN /\ jwts' = JwtSave(jwts, TokenToSave(user, ua, jwtToken))
                 /\ issued' = issued \cup {jwtToken}
                 /\ Respond(p, Returned(op, "UserResDto", jwtToken, 0))
            ELSE /\ Respond(p, Thrown(op, "InternalServerErrorException", NoToken))
                 /\ UNCHANGED <<jwts, issued>>

\* ------------------------------------------------------ login
\* LocalStrategy.validate -> AuthService.validateUser
ValidateUser(p, email, password, ua) ==
  /\ Begin(p)
  /\ LET found == FindUserByEmail(email)
     IN IF found = {}
        THEN Respond(p, Thrown("login", "NotFoundException", NoToken))
        ELSE LET user == CHOOSE u \in found : TRUE
                 record == CHOOSE u \in users : u.id = user.id
             IN IF BcryptCompare(password, record.password)
                THEN /\ pc' = [pc EXCEPT ![p] = "login"]
                     /\ loc' = [loc EXCEPT ![p] = [op |-> "login", user |-> user,
                                                   ua |-> ua, jwtToken |-> NoToken]]
                     /\ last' = last
                ELSE Respond(p, Thrown("login", "UnauthorizedException", NoToken))
  /\ UNCHANGED <<users, jwts, nextId, clock, issued>>

\* AuthService.login
Login(p) ==
  /\ pc[p] = "login"
  /\ IssueAndRespond(p, "login", FALSE)
  /\ UNCHANGED <<users, nextId, clock, started>>

\* ------------------------------------------------------ the clock
Tick ==
  /\ clock < MaxClock
  /\ clock' = clock + 1
  /\ UNCHANGED <<users, jwts, nextId, issued, started, pc, loc, last>>

\* ------------------------------------------------------ signup
\* AuthService.signup, up to userService.create(user).  The email is unique:
\* create fails on an email that is taken, before the try block.  The
\* addresses are interchangeable, so the first one ever signed up is a@x.com.
Signup(p, email, password, ua) ==
  /\ Begin(p)
  /\ nextId <= MaxUsers
  /\ email = "a@x.com" \/ nextId > 1
  /\ IF \E u \in users : u.email = email
     THEN /\ Respond(p, Thrown("signup", "CreateError", NoToken))
          /\ UNCHANGED <<users, nextId>>
     ELSE LET newUser == UserCreate(email, password)
          IN /\ users' = users \cup {newUser}
             /\ nextId' = nextId + 1
             /\ pc' = [pc EXCEPT ![p] = "signup_issue"]
             /\ loc' = [loc EXCEPT ![p] =
                          [op |-> "signup",
                           user |-> [id |-> newUser.id, email |-> newUser.email,
                                     jwtTokens |-> {}],
                           ua |-> ua, jwtToken |-> NoToken]]
             /\ last' = last
  /\ UNCHANGED <<jwts, clock, issued>>

\* const jwtToken = await this.issueJwtToken(newUser, userAgent)
SignupIssue(p) ==
  /\ pc[p] = "signup_issue"
  /\ LET user == loc[p].user
         ua == loc[p].ua
         jwtToken == SignAsync([email |-> user.email, id |-> user.id], clock)
     IN \E saved \in BOOLEAN :
          IF saved
          THEN /\ jwts' = JwtSave(jwts, TokenToSave(user, ua, jwtToken))
               /\ loc' = [loc EXCEPT ![p].jwtToken = jwtToken]
               /\ pc' = [pc EXCEPT ![p] = "signup_mail"]
          ELSE /\ pc' = [pc EXCEPT ![p] = "signup_catch"]
               /\ UNCHANGED <<jwts, loc>>
  /\ UNCHANGED <<users, nextId, clock, issued, started, last>>

\* await this.mailService.sendUserConfirmation(newUser); return { jwt, user }
SignupMail(p) ==
  /\ pc[p] = "signup_mail"
  /\ \E sent \in BOOLEAN :
       IF sent
       THEN /\ issued' = issued \cup {loc[p].jwtToken}
            /\ Respond(p, Returned("signup", "UserResDto", loc[p].jwtToken, 0))
       ELSE /\ pc' = [pc EXCEPT ![p] = "signup_catch"]
            /\ UNCHANGED <<issued, loc, last>>
  /\ UNCHANGED <<users, jwts, nextId, clock, started>>

\* Mutant: the catch block throws without deleting the user.
SignupCatchNoDelete(p) ==
  /\ pc[p] = "signup_catch"
  /\ users' = users
  /\ Respond(p, Thrown("signup", "InternalServerErrorException", NoToken))
  /\ UNCHANGED <<jwts, nextId, clock, issued, started>>

\* catch (error) { await this.userService.delete(newUser.id); throw new
\* InternalServerErrorException(); }  The delete is itself a store write:
\* when it fails its error leaves the catch block in place of the
\* InternalServerErrorException.
SignupCatch(p) ==
  /\ pc[p] = "signup_catch"
  /\ \E deleted \in BOOLEAN :
       IF deleted
       THEN /\ users' = UserDelete(users, loc[p].user.id)
            /\ Respond(p, Thrown("signup", "InternalServerErrorException", NoToken))
       ELSE /\ users' = users
            /\ Respond(p, Thrown("signup", "DeleteError", NoToken))
  /\ UNCHANGED <<jwts, nextId, clock, issued, started>>

\* ------------------------------------------------------ token authentication
\* passport-jwt with ignoreExpiration: false verifies the signature and the
\* exp claim before JwtStrategy.validate is called.
\* Mutant: ignoreExpiration is true.
ExpiredNever(jwt) == FALSE

Expired(jwt) == clock >= JwtExpiresAt(jwt)

\* Mutant: the tokens of the user are not searched.
ValidateJwtNoSearch(jwt, payload) ==
  IF FindUserById(payload.id) = {} THEN "NotFoundException" ELSE "ok"

\* AuthService.validateJwt(jwt, payload, lang): the exception it throws, or "ok"
ValidateJwt(jwt, payload) ==
  LET found == FindUserById(payload.id)
  IN IF found = {}
     THEN "NotFoundException"
     ELSE LET user == CHOOSE u \in found : TRUE
          IN IF \E token \in user.jwtTokens : token.jwtToken = jwt
             THEN "ok"
             ELSE "UnauthorizedException"

\* JwtStrategy.validate(req, payload) for a request to a guarded route: op is
\* the route (refresh, logout, or any other guarded route, "validate").
JwtValidate(p, op, jwt, ua) ==
  /\ Begin(p)
  /\ jwt \in issued
  /\ IF Expired(jwt)
     THEN Respond(p, Thrown(op, "TokenExpiredError", jwt))
     ELSE LET res == ValidateJwt(jwt, [id |-> jwt.id, email |-> jwt.email])
          IN IF res # "ok"
             THEN Respond(p, Thrown(op, res, jwt))
             ELSE LET user == CHOOSE u \in FindUserById(jwt.id) : TRUE
                  IN IF op = "validate"
                     THEN Respond(p, Returned(op, "User", jwt, 0))
                     ELSE /\ pc' = [pc EXCEPT ![p] = op]
                          /\ loc' = [loc EXCEPT ![p] = [op |-> op, user |-> user,
                                                        ua |-> ua, jwtToken |-> jwt]]
                          /\ last' = last
  /\ UNCHANGED <<users, jwts, nextId, clock, issued>>

\* AuthService.refreshToken
RefreshToken(p) ==
  /\ pc[p] = "refresh"
  /\ IssueAndRespond(p, "refresh", TRUE)
  /\ UNCHANGED <<users, nextId, clock, started>>

\* AuthService.logout: the SuccessDto when rows were affected, and nothing
\* (undefined) otherwise.
LogoutResult(affected) ==
  IF affected # 0
  THEN Returned("logout", "SuccessDto", NoToken, affected)
  ELSE Returned("logout", "undefined", NoToken, affected)

Logout(p) ==
  /\ pc[p] = "logout"
  /\ LET matches == JwtDeleteMatches(jwts, loc[p].user, loc[p].ua)
     IN /\ jwts' = jwts \ matches
        /\ Respond(p, LogoutResult(Cardinality(matches)))
  /\ UNCHANGED <<users, nextId, clock, issued, started>>

\* ------------------------------------------------------ activation
\* Mutant: the affected count is not looked at.
ActivateResultAlwaysOk(affected) ==
  Returned("activate", "User is successfully activated", NoToken, affected)

\* AuthService.activateUser(secret): the BadRequestException is returned,
\* not thrown.
ActivateResult(affected) ==
  IF affected # 0
  THEN Returned("activate", "User is successfully activated", NoToken, affected)
  ELSE Returned("activate", "BadRequestException", NoToken, affected)

ActivateUser(p, secret) ==
  /\ Begin(p)
  /\ users' = UserUpdate(users, secret)
  /\ Respond(p, ActivateResult(Cardinality(UserUpdateMatches(users, secret))))
  /\ UNCHANGED <<jwts, nextId, clock, issued>>

\* ------------------------------------------------------ the specification
Init ==
  /\ users = {}
  /\ jwts = {}
  /\ nextId = 1
  /\ clock = 0
  /\ issued = {}
  /\ started = 0
  /\ pc = [p \in Procs |-> "idle"]
  /\ loc = [p \in Procs |-> NoLoc]
  /\ last = NoOut

Next ==
  \/ Tick
  \/ \E p \in Procs, email \in Emails, password \in SignupPasswords, ua \in Devices :
       Signup(p, email, password, ua)
  \/ \E p \in Procs : SignupIssue(p)
  \/ \E p \in Procs : SignupMail(p)
  \/ \E p \in Procs : SignupCatch(p)
  \/ \E p \in Procs, email \in Emails, password \in Passwords, ua \in Devices :
       ValidateUser(p, email, password, ua)
  \/ \E p \in Procs : Login(p)
  \/ \E p \in Procs, op \in {"refresh", "logout", "validate"}, jwt \in issued,
        ua \in Devices : JwtValidate(p, op, jwt, ua)
  \/ \E p \in Procs : RefreshToken(p)
  \/ \E p \in Procs : Logout(p)
  \/ \E p \in Procs, secret \in Secrets : ActivateUser(p, secret)

Spec == Init /\ [][Next]_vars

\* ====================================================== properties
\* Every token string the codec can have signed within the bounds.
Tokens ==
  {SignAsync([email |-> e, id |-> i], t) : e \in Emails, i \in UserIds, t \in 0..MaxClock}

C2_ValidateJwtIffStored ==
  \A jwt \in Tokens :
    LET res == ValidateJwt(jwt, [id |-> jwt.id, email |-> jwt.email])
        exists == \E u \in users : u.id = jwt.id
        stored == \E t \in jwts : t.user = jwt.id /\ t.jwtToken = jwt
    IN /\ exists => (res = "ok" <=> stored)
       /\ exists /\ ~stored => res = "UnauthorizedException"
       /\ ~exists => res = "NotFoundException"

\* A request authenticated by a token whose row belongs to another device
\* than the one the request comes from, while some token of an existing user
\* is held by no row of that user and is rejected.
C2_Witness ==
  \E p \in Procs :
    /\ pc[p] \in {"refresh", "logout"}
    /\ \E t \in jwts : /\ t.user = loc[p].user.id
                       /\ t.jwtToken = loc[p].jwtToken
                       /\ ~SameDevice(t, loc[p].ua)
    /\ \E jwt \in Tokens : \E u \in users :
         u.id = jwt.id /\ ValidateJwt(jwt, [id |-> jwt.id, email |-> jwt.email])
                            = "UnauthorizedException"

\* C3: a refresh for a device fingerprint for which the user the request
\* loaded has no Session Token fails with Unauthorized, returns no token and
\* leaves the Token Store unchanged.
C3_RefreshUnknownDevice ==
  [][\A p \in Procs :
       (/\ pc[p] = "refresh"
        /\ pc'[p] = "idle"
        /\ Find(loc[p].user.jwtTokens, loc[p].user.id, loc[p].ua) = {})
       => /\ last' = Thrown("refresh", "UnauthorizedException", NoToken)
          /\ jwts' = jwts
          /\ issued' = issued]_vars

C3_Witness ==
  /\ last = Thrown("refresh", "UnauthorizedException", NoToken)
  /\ jwts # {}

\* C4 (as claimed): logout(U,F) on a stored row removes exactly that one row,
\* and a logout(U,F) that matches no row raises no error, returns a success
\* result reporting zero rows affected and leaves the store unchanged.
C4_LogoutIdempotentSuccess ==
  [][\A p \in Procs :
       (pc[p] = "logout" /\ pc'[p] = "idle")
       => LET row == Find(jwts, loc[p].user.id, loc[p].ua)
          IN /\ jwts' = jwts \ row
             /\ Cardinality(row) <= 1
             /\ last'.status = "returned"
             /\ last'.value = "SuccessDto"
             /\ last'.affected = Cardinality(row)]_vars

\* C5: when the issuance of a login or of a signup returns a token T, a find
\* on the Token Store right after it gives one row for the user and the
\* device, and the row holds T.
C5_WriteThenRead ==
  [][\A p \in Procs :
       /\ (pc[p] = "login" /\ pc'[p] = "idle" /\ last'.status = "returned")
          => /\ last'.op = "login"
             /\ \A t \in Find(jwts', loc[p].user.id, loc[p].ua) :
                  t.jwtToken = last'.token
             /\ Cardinality(Find(jwts', loc[p].user.id, loc[p].ua)) = 1
       /\ (pc[p] = "signup_issue" /\ pc'[p] = "signup_mail")
          => /\ \A t \in Find(jwts', loc[p].user.id, loc[p].ua) :
                  t.jwtToken = loc'[p].jwtToken
             /\ Cardinality(Find(jwts', loc[p].user.id, loc[p].ua)) = 1]_vars

\* A login from a device that had a row holding an older token has returned,
\* and the row holds the token of the response.
C5_Witness ==
  /\ last.op = "login"
  /\ last.status = "returned"
  /\ \E t \in jwts : t.jwtToken = last.token
  /\ \E old \in issued : old.id = last.token.id /\ old.iat < last.token.iat
  /\ Cardinality({t \in jwts : t.user = last.token.id}) = 1

\* The step of a login that follows a signup of the same user from the same
\* device: the row of the pair still holds the token the signup returned.
LoginAfterSignup(p) ==
  /\ pc[p] = "login"
  /\ pc'[p] = "idle"
  /\ last'.status = "returned"
  /\ last.op = "signup"
  /\ last.status = "returned"
  /\ last.token.id = loc[p].user.id
  /\ \E t \in Find(jwts, loc[p].user.id, loc[p].ua) : t.jwtToken = last.token

\* C6 (as claimed): a signup from deviceA followed by a login of the same
\* user from deviceA leaves exactly one row for the pair, and its token
\* string differs from the one the signup stored.
C6_ReloginChangesToken ==
  [][\A p \in Procs :
       LoginAfterSignup(p)
       => /\ Cardinality(Find(jwts', loc[p].user.id, loc[p].ua)) = 1
          /\ \A t \in Find(jwts', loc[p].user.id, loc[p].ua) :
               t.jwtToken # last.token]_vars

\* C6 (amended): the login leaves exactly one row for the pair, holding the
\* token the login returned; that string differs from the signup's exactly
\* when the login signs it in a later second than the signup did.
C6_ReloginOverwritesInPlace ==
  [][\A p \in Procs :
       LoginAfterSignup(p)
       => /\ Cardinality(Find(jwts', loc[p].user.id, loc[p].ua)) = 1
          /\ \A t \in Find(jwts', loc[p].user.id, loc[p].ua) :
               /\ t.jwtToken = last'.token
               /\ (t.jwtToken # last.token) <=> (clock > last.token.iat)]_vars

\* A login has replaced the token of a signup from the same device by one of
\* a later second: the user has one row, and it holds the newer string.
C6_Witness ==
  /\ last.op = "login"
  /\ last.status = "returned"
  /\ last.token.iat > 0
  /\ [id |-> last.token.id, email |-> last.token.email, iat |-> 0] \in issued
  /\ \E u \in users : u.id = last.token.id
  /\ {t.jwtToken : t \in {x \in jwts : x.user = last.token.id}} = {last.token}
  /\ started = 2

\* C7: a login of a user from a device, while the user has a row for a
\* structurally different device, leaves two distinct rows, one per device:
\* the other device's row is neither overwritten nor removed.
C7_OtherDeviceKept ==
  [][\A p \in Procs :
       (pc[p] = "login" /\ pc'[p] = "idle" /\ last'.status = "returned")
       => \A other \in Devices :
            (other # loc[p].ua /\ Find(jwts, loc[p].user.id, other) # {})
            => /\ Find(jwts', loc[p].user.id, other) = Find(jwts, loc[p].user.id, other)
               /\ \E t \in Find(jwts', loc[p].user.id, loc[p].ua) :
                    /\ t.jwtToken = last'.token
                    /\ t \notin Find(jwts', loc[p].user.id, other)
               /\ Cardinality({t \in jwts' : t.user = loc[p].user.id}) = 2]_vars

\* After a login the user has a row for deviceA and a row for deviceB.
C7_Witness ==
  /\ last.op = "login"
  /\ last.status = "returned"
  /\ Find(jwts, last.token.id, deviceA) # {}
  /\ Find(jwts, last.token.id, deviceB) # {}

\* The step that leaves the catch block of signup: token issuance or the mail
\* send has failed after the user was created.
SignupFails(p) == pc[p] = "signup_catch" /\ pc'[p] = "idle"

\* C8 (as claimed): when token issuance or the mail send fails after signup
\* created the user, signup deletes the user, surfaces an InternalError and
\* returns no token, and the user it created no longer exists.
C8_SignupRollsBack ==
  [][\A p \in Procs :
       SignupFails(p)
       => /\ last' = Thrown("signup", "InternalServerErrorException", NoToken)
          /\ ~ \E u \in users' : u.id = loc[p].user.id]_vars

\* C8 (amended): a failed signup returns no token; when the compensating
\* delete succeeds it surfaces an InternalError and the created user is gone
\* (and only that user); when the delete itself fails, the delete's error is
\* surfaced in its place and the created user remains.
C8_SignupRollsBackBestEffort ==
  [][\A p \in Procs :
       SignupFails(p)
       => /\ last'.status = "thrown"
          /\ last'.token = NoToken
          /\ issued' = issued
          /\ \/ /\ last'.value = "InternalServerErrorException"
                /\ users' = {u \in users : u.id # loc[p].user.id}
                /\ \E u \in users : u.id = loc[p].user.id
             \/ /\ last'.value = "DeleteError"
                /\ users' = users]_vars

\* A signup has failed with an InternalError after its token was stored:
\* the user is gone.
C8_Witness ==
  /\ last = Thrown("signup", "InternalServerErrorException", NoToken)
  /\ users = {}
  /\ nextId = 2
  /\ jwts # {}

\* C9: a login with an email no user has fails with NotFound, one with a
\* password that does not match the stored hash fails with Unauthorized, and
\* in both cases no token is issued and the Token Store is unchanged; only
\* matching credentials lead to the issuance, with creation allowed.
C9_LoginCredentials ==
  [][\A p \in Procs, email \in Emails, password \in Passwords, ua \in Devices :
       ValidateUser(p, email, password, ua)
       => LET holders == {u \in users : u.email = email}
              match == \E u \in holders : u.password = Hash(password)
          IN /\ jwts' = jwts /\ issued' = issued
             /\ holders = {}
                => last' = Thrown("login", "NotFoundException", NoToken) /\ pc'[p] = "idle"
             /\ (holders # {} /\ ~match)
                => last' = Thrown("login", "UnauthorizedException", NoToken) /\ pc'[p] = "idle"
             /\ pc'[p] = "login" <=> match
             /\ match => /\ loc'[p].ua = ua
                         /\ \E u \in holders : loc'[p].user.id = u.id
                         /\ ~UnauthorizedDevice(loc'[p].user, ua, FALSE)]_vars

\* A login with a wrong password was rejected while the user has a stored
\* session.
C9_Witness ==
  /\ last = Thrown("login", "UnauthorizedException", NoToken)
  /\ jwts # {}
  /\ \A p \in Procs : pc[p] = "idle"

\* C10: activate(secret) with a secret no user holds gives the caller a
\* BadRequest outcome and changes no state.
C10_ActivateUnknownSecret ==
  [][\A p \in Procs, secret \in Secrets :
       (ActivateUser(p, secret) /\ ~ \E u \in users : u.activationSecret = secret)
       => /\ last'.value = "BadRequestException"
          /\ last'.affected = 0
          /\ users' = users
          /\ jwts' = jwts]_vars

\* An activation with an unknown secret was answered while a user still
\* waits for its activation.
C10_Witness ==
  /\ last.op = "activate"
  /\ last.value = "BadRequestException"
  /\ \E u \in users : u.activationSecret # 0

\* The rows of a table that hold a token for a user and a device.
Holds(table, userId, ua, token) ==
  \E t \in Find(table, userId, ua) : t.jwtToken = token

\* What C11 says of the token a request returns: login and refresh return a
\* token only in the step whose save stored it for the pair, signup only the
\* token its issuance stored before the mail was sent; a failed save stores
\* and returns nothing.
ReturnsOnlyRecorded(p) ==
  /\ (pc[p] \in {"login", "refresh"} /\ pc'[p] = "idle")
     => IF last'.status = "returned"
        THEN /\ last'.token # NoToken
             /\ Holds(jwts', loc[p].user.id, loc[p].ua, last'.token)
        ELSE last'.token = NoToken /\ jwts' = jwts /\ issued' = issued
  /\ (pc[p] = "signup_issue" /\ pc'[p] # "signup_issue")
     => IF pc'[p] = "signup_mail"
        THEN /\ loc'[p].jwtToken # NoToken
             /\ Holds(jwts', loc[p].user.id, loc[p].ua, loc'[p].jwtToken)
        ELSE pc'[p] = "signup_catch" /\ loc'[p].jwtToken = NoToken /\ jwts' = jwts
  /\ (pc[p] = "signup_mail" /\ pc'[p] = "idle")
     => last' = Returned("signup", "UserResDto", loc[p].jwtToken, 0)
  /\ (pc[p] = "signup_catch" /\ pc'[p] = "idle")
     => last'.status = "thrown" /\ last'.token = NoToken /\ issued' = issued

\* A response to a request whose store write has failed.
WriteFailed(p) ==
  \/ pc[p] = "login" /\ pc'[p] = "idle" /\ last'.status = "thrown"
  \/ /\ pc[p] = "refresh" /\ pc'[p] = "idle" /\ last'.status = "thrown"
     /\ ~UnauthorizedDevice(loc[p].user, loc[p].ua, TRUE)
  \/ pc[p] = "signup_catch" /\ pc'[p] = "idle" /\ loc[p].jwtToken = NoToken

\* C11 (as claimed): signup, login and refresh return only a token whose row
\* was written before the return, and when the store write fails they surface
\* an InternalError and return no token.
C11_NoUnrecordedToken ==
  [][\A p \in Procs :
       /\ ReturnsOnlyRecorded(p)
       /\ WriteFailed(p) => last'.value = "InternalServerErrorException"]_vars

\* C11 (amended): the same, except that a signup whose store write failed
\* surfaces the error of its compensating delete when that delete fails too.
C11_NoUnrecordedTokenBestEffort ==
  [][\A p \in Procs :
       /\ ReturnsOnlyRecorded(p)
       /\ WriteFailed(p)
          => \/ last'.value = "InternalServerErrorException"
             \/ /\ pc[p] = "signup_catch"
                /\ last'.value = "DeleteError"
                /\ users' = users]_vars

\* A login whose save failed was answered with an InternalError: the user
\* has no row and no token was handed out.
C11_Witness ==
  /\ last = Thrown("login", "InternalServerErrorException", NoToken)
  /\ users # {}
  /\ jwts = {}
  /\ issued = {}

\* The write of a login that raced with another login of the same user: the
\* other login wrote and answered (its response is the last one, its token
\* is in the row of the pair) after this one had loaded the user, whose
\* tokens do not show that write.
SecondOfTwoLogins(p) ==
  /\ pc[p] = "login"
  /\ pc'[p] = "idle"
  /\ last'.status = "returned"
  /\ last.op = "login"
  /\ last.status = "returned"
  /\ Holds(jwts, loc[p].user.id, loc[p].ua, last.token)
  /\ ~Holds(loc[p].user.jwtTokens, loc[p].user.id, loc[p].ua, last.token)

SignupInProgress(p) == pc[p] \in {"signup_issue", "signup_mail", "signup_catch"}

\* C13 (as claimed): no login authenticates the user of a signup that is
\* still in progress or that has failed: a login past validateUser never
\* holds the user of a signup in progress, nor a user that was rolled back.
C13_NoGhostUserLogin ==
  \A q \in Procs :
    pc[q] = "login"
    => /\ ~ \E p \in Procs : SignupInProgress(p) /\ loc[p].user.id = loc[q].user.id
       /\ \E u \in users : u.id = loc[q].user.id

\* C15 (as claimed): the write of a refresh never makes a row for (U,F)
\* exist where none existed immediately before it.
C15_RefreshNeverCreates ==
  [][\A p \in Procs :
       (pc[p] = "refresh" /\ pc'[p] = "idle"
        /\ Find(jwts, loc[p].user.id, loc[p].ua) = {})
       => Find(jwts', loc[p].user.id, loc[p].ua) = {}]_vars

\* C14 (as claimed): a token that was handed out and that no row of its user
\* holds, its device's row being deleted, is accepted again only through a
\* login or a signup that issues a token for the pair.
C14_RevokedUntilLogin ==
  [][\A jwt \in issued : \A ua \in Devices :
       (/\ \E u \in users : u.id = jwt.id
        /\ ValidateJwt(jwt, [id |-> jwt.id, email |-> jwt.email]) = "UnauthorizedException"
        /\ Find(jwts, jwt.id, ua) = {}
        /\ Holds(jwts', jwt.id, ua, jwt))
       => \E p \in Procs : /\ pc[p] \in {"login", "signup_issue"}
                           /\ pc'[p] # pc[p]
                           /\ loc[p].user.id = jwt.id
                           /\ loc[p].ua = ua]_vars

\* A login or a refresh of p answers with a token for a pair whose row held
\* tokenA immediately before.
Replaces(p, tokenA) ==
  /\ pc[p] \in {"login", "refresh"} /\ pc'[p] = "idle"
  /\ last'.status = "returned"
  /\ Holds(jwts, loc[p].user.id, loc[p].ua, tokenA)

\* No row of another device of the user of p holds tokenA after the step.
NotOnOtherDevice(p, tokenA) ==
  \A ua \in Devices \ {loc[p].ua} : ~Holds(jwts', loc[p].user.id, ua, tokenA)

\* At most one token string of each (user, device) pair is stored, hence
\* accepted, after the step.
OneAcceptedPerPair ==
  \A id \in UserIds : \A ua \in Devices :
    Cardinality({t.jwtToken : t \in Find(jwts', id, ua)}) <= 1

\* C16 (as claimed): after a login or refresh for (U,F) has replaced the stored
\* tokenA, validateJwt rejects tokenA unless another device of U still stores
\* it, and at most one token string per pair is accepted.
C16_Supersession ==
  [][/\ \A p \in Procs : \A tokenA \in Tokens :
          (Replaces(p, tokenA) /\ NotOnOtherDevice(p, tokenA))
          => ValidateJwt(tokenA, [id |-> tokenA.id, email |-> tokenA.email])' # "ok"
     /\ OneAcceptedPerPair]_vars

\* C16 (amended): after a login or refresh for (U,F) has replaced the stored
\* tokenA with a different string tokenB, validateJwt rejects tokenA unless
\* another device of U still stores it, and at most one token string per pair
\* is accepted.
C16_SupersessionOfDifferentString ==
  [][/\ \A p \in Procs : \A tokenA \in Tokens :
          (Replaces(p, tokenA) /\ NotOnOtherDevice(p, tokenA)
           /\ last'.token # tokenA)
          => ValidateJwt(tokenA, [id |-> tokenA.id, email |-> tokenA.email])' # "ok"
     /\ OneAcceptedPerPair]_vars

\* The second request ever started, a login or a refresh, has answered with a
\* token that differs from the one the signup returned, and the earlier
\* token of the same user is now rejected.
C16_Witness ==
  /\ last.op \in {"login", "refresh"} /\ last.status = "returned"
  /\ started = 2
  /\ \E tokenA \in issued :
       /\ tokenA.id = last.token.id
       /\ tokenA # last.token
       /\ ValidateJwt(tokenA, [id |-> tokenA.id, email |-> tokenA.email])
            = "UnauthorizedException"
       /\ ValidateJwt(last.token, [id |-> tokenA.id, email |-> tokenA.email]) = "ok"

\* The expires-at instant of the token, issued-at plus the configured
\* lifetime, is not in the future.
PastExpiry(jwt) == clock >= jwt.iat + ExpiresIn

\* The step authenticates a request of p for refresh or logout with the token
\* it presents.
AuthenticatesJwt(p) == pc[p] = "idle" /\ pc'[p] \in {"refresh", "logout"}

\* The step answers a request to another guarded route with the user.
AnswersGuardedRoute ==
  /\ started' # started /\ pc' = pc
  /\ last'.op = "validate" /\ last'.status = "returned"

\* C17: expiry is enforced at validation, not by the store: the passing of
\* time removes and changes no Session Token row, and a request presenting
\* a token whose expiry has passed is never authenticated, whether or not
\* the string is still stored.
C17_ExpiryAtValidation ==
  [][/\ clock' # clock => jwts' = jwts
     /\ \A p \in Procs : AuthenticatesJwt(p) => ~PastExpiry(loc'[p].jwtToken)
     /\ AnswersGuardedRoute => ~PastExpiry(last'.token)]_vars

\* A request presenting an expired token that its user's row still holds has
\* been refused.
C17_Witness ==
  /\ last.status = "thrown" /\ last.value = "TokenExpiredError"
  /\ PastExpiry(last.token)
  /\ \E ua \in Devices : Holds(jwts, last.token.id, ua, last.token)
  /\ \E u \in users : u.id = last.token.id

\* The step is an activation request, answered at once.
Activates ==
  started' # started /\ pc' = pc /\ last'.op = "activate"

\* The answer activate(secret) gets in the state after the step.
RepeatedActivate(secret) ==
  ActivateResult(Cardinality({u \in users' : u.activationSecret = secret}))

\* C18: activation is one-shot: an activation with a secret a user holds
\* clears the secret of that user and changes no other user, no step sets a
\* cleared secret again, and repeating the activation with the same secret
\* is answered with the BadRequest exception.
C18_ActivationOneShot ==
  [][/\ \A u \in users : \A v \in users' :
          (u.activationSecret = 0 /\ v.id = u.id) => v.activationSecret = 0
     /\ Activates
        => LET changed == users \ users'
           IN /\ Cardinality(changed) <= 1
              /\ last'.affected = Cardinality(changed)
              /\ users' = {IF u \in changed THEN [u EXCEPT !.activationSecret = 0]
                                            ELSE u : u \in users}
              /\ \A u \in changed :
                   /\ u.activationSecret # 0
                   /\ last'.value = "User is successfully activated"
                   /\ RepeatedActivate(u.activationSecret).value
                        = "BadRequestException"]_vars

\* Two users exist and an activation has just cleared the secret of one of
\* them, the other still holding its own.
C18_Witness ==
  /\ last.op = "activate" /\ last.affected = 1
  /\ last.value = "User is successfully activated"
  /\ \A p \in Procs : pc[p] = "idle"
  /\ \E u \in users : u.activationSecret = 0
  /\ \E u \in users : u.activationSecret # 0

\* The step is one of a login, signup, refresh or logout of p past its
\* authentication, for the pair of row t.
StepFor(p, t) ==
  /\ pc[p] # "idle" /\ pc'[p] # pc[p]
  /\ JwtKey(t) = <<loc[p].user.id, loc[p].ua.os, loc[p].ua.platform, loc[p].ua.browser>>

\* C19: frame: a step of a login, signup, refresh or logout for (U,F) adds,
\* removes and changes only the row of (U,F); every other step, the
\* validation of a token included, changes no row.
C19_Frame ==
  [][\A t \in (jwts \ jwts') \cup (jwts' \ jwts) : \E p \in Procs : StepFor(p, t)]_vars

\* A logout has deleted its row and another row is still stored.
C19_Witness ==
  /\ last.op = "logout" /\ last.affected = 1
  /\ jwts # {}
  /\ \A p \in Procs : pc[p] = "idle"

\* C20 (as claimed): referential integrity: every stored Session Token row is
\* owned by an existing user, also after a signup whose issuance succeeded
\* and whose mail failed has been rolled back.
C20_RowsOwned ==
  \A t \in jwts : \E u \in users : u.id = t.user

====
